---- MODULE Spec2Model ----
(***************************************************************************)
(* Author / Magazine / Article many-to-many graph of                       *)
(* lib/classes/many_to_many.py.                                            *)
(*                                                                         *)
(* The three class-level lists Author.all, Magazine.all and Article.all    *)
(* are the state.  An instance is identified by its position in the list   *)
(* of its class (Python compares the instances by identity; no class       *)
(* defines __eq__ or __hash__).  Every call of the public API is one       *)
(* action; the call, its return value and the exception it raised are      *)
(* recorded in call, ret and exc.                                          *)
(***************************************************************************)
EXTENDS Integers, Sequences, FiniteSets, TLC

VARIABLES Author_all, Magazine_all, Article_all, call, ret, exc

vars == <<Author_all, Magazine_all, Article_all, call, ret, exc>>
registries == <<Author_all, Magazine_all, Article_all>>

(***************************************************************************)
(* Bounds of the model.                                                    *)
(***************************************************************************)
\* instances constructed in a run of Spec (all classes together)
MaxInstances == 4
\* instances constructed in a run of SpecViews (all classes together)
MaxViewInstances == 7

(***************************************************************************)
(* Python values.  Every value is a record of the same shape: its type,    *)
(* the characters of a str, the registry position of an instance, the      *)
(* elements of a list.                                                     *)
(***************************************************************************)
None == [type |-> "NoneType", val |-> "", ref |-> 0, items |-> <<>>]
Str(s) == [type |-> "str", val |-> s, ref |-> 0, items |-> <<>>]
Obj(cls, i) == [type |-> cls, val |-> "", ref |-> i, items |-> <<>>]
List(s) == [type |-> "list", val |-> "", ref |-> 0, items |-> s]

isinstance(v, cls) == v.type = cls
len(v) == IF v.type = "list" THEN Len(v.items) ELSE Len(v.val)

Range(s) == {s[n] : n \in DOMAIN s}

\* list(set(...)): every element of the set once, in an order the set's
\* hashing decides (addresses, randomised str hashes): any order.
ListOfSet(S) ==
    {List(s) : s \in {t \in [1..Cardinality(S) -> S] : Range(t) = S}}

(***************************************************************************)
(* The live instances: whatever was constructed is in its registry, and    *)
(* nothing is ever removed from one.                                       *)
(***************************************************************************)
Authors == {Obj("Author", i) : i \in DOMAIN Author_all}
Magazines == {Obj("Magazine", j) : j \in DOMAIN Magazine_all}
Articles == {Obj("Article", k) : k \in DOMAIN Article_all}

NumInstances == Len(Author_all) + Len(Magazine_all) + Len(Article_all)

Init ==
    /\ Author_all = <<>>
    /\ Magazine_all = <<>>
    /\ Article_all = <<>>
    /\ call = [op |-> "", self |-> None, args |-> <<>>]
    /\ ret = None
    /\ exc = ""

\* raise Exception(msg): the call ends here, nothing was assigned yet
Raise(msg) ==
    /\ exc' = msg
    /\ ret' = None
    /\ UNCHANGED registries

\* a call that returns v and assigns nothing
Return(v) ==
    /\ exc' = ""
    /\ ret' = v
    /\ UNCHANGED registries

(***************************************************************************)
(* class Article                                                           *)
(***************************************************************************)
\* the limits taken as exclusive: 5 < len(title) < 50
TitleLenOk_exclusive(title) == 5 < len(title) /\ len(title) < 50

\* 5 <= len(title) <= 50
TitleLenOk(title) == 5 <= len(title) /\ len(title) <= 50

\* the instance appended to Article.all before its title is validated
Article_init_appends_first(author, magazine, title) ==
    IF ~isinstance(author, "Author")
    THEN Raise("Author must be an instance of Author class")
    ELSE IF ~isinstance(magazine, "Magazine")
    THEN Raise("Magazine must be an instance of Magazine class")
    ELSE /\ Article_all' = Append(Article_all,
                [title |-> title, author |-> author, magazine |-> magazine])
         /\ UNCHANGED <<Author_all, Magazine_all>>
         /\ IF ~isinstance(title, "str")
            THEN exc' = "Title must be a string" /\ ret' = None
            ELSE IF ~TitleLenOk(title)
            THEN /\ exc' = "Title must be between 5 and 50 characters inclusive"
                 /\ ret' = None
            ELSE exc' = "" /\ ret' = Obj("Article", Len(Article_all) + 1)

\* Article.__init__(self, author, magazine, title); the new instance is the
\* next position of Article.all
Article_init(author, magazine, title) ==
    IF ~isinstance(author, "Author")
    THEN Raise("Author must be an instance of Author class")
    ELSE IF ~isinstance(magazine, "Magazine")
    THEN Raise("Magazine must be an instance of Magazine class")
    ELSE IF ~isinstance(title, "str")
    THEN Raise("Title must be a string")
    ELSE IF ~TitleLenOk(title)
    THEN Raise("Title must be between 5 and 50 characters inclusive")
    ELSE /\ Article_all' = Append(Article_all,
                [title |-> title, author |-> author, magazine |-> magazine])
         /\ UNCHANGED <<Author_all, Magazine_all>>
         /\ ret' = Obj("Article", Len(Article_all) + 1)
         /\ exc' = ""

\* Article(author, magazine, title)
Article(author, magazine, title) ==
    /\ call' = [op |-> "Article", self |-> None,
                args |-> <<author, magazine, title>>]
    /\ Article_init(author, magazine, title)

\* the author assigned without the isinstance test
Article_author_setter_unchecked(self, new_author) ==
    /\ call' = [op |-> "Article.author=", self |-> self, args |-> <<new_author>>]
    /\ Article_all' = [Article_all EXCEPT ![self.ref].author = new_author]
    /\ UNCHANGED <<Author_all, Magazine_all>>
    /\ ret' = None
    /\ exc' = ""

\* article.author = new_author
Article_author_setter(self, new_author) ==
    /\ call' = [op |-> "Article.author=", self |-> self, args |-> <<new_author>>]
    /\ IF ~isinstance(new_author, "Author")
       THEN Raise("Author must be an instance of Author class")
       ELSE /\ Article_all' = [Article_all EXCEPT ![self.ref].author = new_author]
            /\ UNCHANGED <<Author_all, Magazine_all>>
            /\ ret' = None
            /\ exc' = ""

\* article.magazine = new_magazine
Article_magazine_setter(self, new_magazine) ==
    /\ call' = [op |-> "Article.magazine=", self |-> self,
                args |-> <<new_magazine>>]
    /\ IF ~isinstance(new_magazine, "Magazine")
       THEN Raise("Magazine must be an instance of Magazine class")
       ELSE /\ Article_all' =
                   [Article_all EXCEPT ![self.ref].magazine = new_magazine]
            /\ UNCHANGED <<Author_all, Magazine_all>>
            /\ ret' = None
            /\ exc' = ""

\* article.title, article.author, article.magazine (the property getters)
Article_title(self) == Article_all[self.ref].title
Article_author(self) == Article_all[self.ref].author
Article_magazine(self) == Article_all[self.ref].magazine

(***************************************************************************)
(* class Author                                                            *)
(***************************************************************************)
\* Author(name)
Author(name) ==
    /\ call' = [op |-> "Author", self |-> None, args |-> <<name>>]
    /\ IF ~isinstance(name, "str")
       THEN Raise("Name must be a string")
       ELSE IF len(name) <= 0
       THEN Raise("Name must be longer than 0 characters")
       ELSE /\ Author_all' = Append(Author_all, [name |-> name])
            /\ UNCHANGED <<Magazine_all, Article_all>>
            /\ ret' = Obj("Author", Len(Author_all) + 1)
            /\ exc' = ""

Author_name(self) == Author_all[self.ref].name

\* the articles selected by the author's name instead of the instance
Author_articles_byname(self) ==
    List(SelectSeq([k \in DOMAIN Article_all |-> Obj("Article", k)],
                   LAMBDA article :
                       Author_all[Article_all[article.ref].author.ref].name
                           = Author_all[self.ref].name))

\* [article for article in Article.all if article.author == self]
Author_articles(self) ==
    List(SelectSeq([k \in DOMAIN Article_all |-> Obj("Article", k)],
                   LAMBDA article : Article_author(article) = self))

\* list(set(article.magazine for article in self.articles()))
Author_magazines(self) ==
    ListOfSet({Article_magazine(article) :
                   article \in Range(Author_articles(self).items)})

\* author.add_article(magazine, title)
Author_add_article(self, magazine, title) ==
    /\ call' = [op |-> "Author.add_article", self |-> self,
                args |-> <<magazine, title>>]
    /\ IF ~isinstance(magazine, "Magazine")
       THEN Raise("Magazine must be an instance of Magazine class")
       ELSE Article_init(self, magazine, title)

\* the categories listed once per article, without the set
Author_topic_areas_nodedupe(self) ==
    IF len(Author_articles(self)) = 0
    THEN {None}
    ELSE {List([n \in DOMAIN Author_articles(self).items |->
                   Magazine_all[Article_all[Author_articles(self).items[n].ref]
                                    .magazine.ref].category])}

\* author.topic_areas(): None, or the possible lists
Author_topic_areas(self) ==
    IF len(Author_articles(self)) = 0
    THEN {None}
    ELSE ListOfSet({Magazine_all[Article_magazine(article).ref].category :
                        article \in Range(Author_articles(self).items)})

(***************************************************************************)
(* class Magazine                                                          *)
(***************************************************************************)
\* Magazine(name, category)
Magazine(name, category) ==
    /\ call' = [op |-> "Magazine", self |-> None, args |-> <<name, category>>]
    /\ IF ~isinstance(name, "str")
       THEN Raise("Name must be a string")
       ELSE IF ~(2 <= len(name) /\ len(name) <= 16)
       THEN Raise("Name must be between 2 and 16 characters inclusive")
       ELSE IF ~isinstance(category, "str")
       THEN Raise("Category must be a string")
       ELSE IF len(category) <= 0
       THEN Raise("Category must be longer than 0 characters")
       ELSE /\ Magazine_all' =
                   Append(Magazine_all, [name |-> name, category |-> category])
            /\ UNCHANGED <<Author_all, Article_all>>
            /\ ret' = Obj("Magazine", Len(Magazine_all) + 1)
            /\ exc' = ""

Magazine_name(self) == Magazine_all[self.ref].name
Magazine_category(self) == Magazine_all[self.ref].category

\* the setter testing the lower limit only
Magazine_name_setter_nomax(self, new_name) ==
    /\ call' = [op |-> "Magazine.name=", self |-> self, args |-> <<new_name>>]
    /\ IF ~isinstance(new_name, "str")
       THEN Raise("Name must be a string")
       ELSE IF ~(2 <= len(new_name))
       THEN Raise("Name must be between 2 and 16 characters inclusive")
       ELSE /\ Magazine_all' = [Magazine_all EXCEPT ![self.ref].name = new_name]
            /\ UNCHANGED <<Author_all, Article_all>>
            /\ ret' = None
            /\ exc' = ""

\* magazine.name = new_name
Magazine_name_setter(self, new_name) ==
    /\ call' = [op |-> "Magazine.name=", self |-> self, args |-> <<new_name>>]
    /\ IF ~isinstance(new_name, "str")
       THEN Raise("Name must be a string")
       ELSE IF ~(2 <= len(new_name) /\ len(new_name) <= 16)
       THEN Raise("Name must be between 2 and 16 characters inclusive")
       ELSE /\ Magazine_all' = [Magazine_all EXCEPT ![self.ref].name = new_name]
            /\ UNCHANGED <<Author_all, Article_all>>
            /\ ret' = None
            /\ exc' = ""

\* magazine.category = new_category
Magazine_category_setter(self, new_category) ==
    /\ call' = [op |-> "Magazine.category=", self |-> self,
                args |-> <<new_category>>]
    /\ IF ~isinstance(new_category, "str")
       THEN Raise("Category must be a string")
       ELSE IF len(new_category) <= 0
       THEN Raise("Category must be longer than 0 characters")
       ELSE /\ Magazine_all' =
                   [Magazine_all EXCEPT ![self.ref].category = new_category]
            /\ UNCHANGED <<Author_all, Article_all>>
            /\ ret' = None
            /\ exc' = ""

\* [article for article in Article.all if article.magazine == self]
Magazine_articles(self) ==
    List(SelectSeq([k \in DOMAIN Article_all |-> Obj("Article", k)],
                   LAMBDA article : Article_magazine(article) = self))

\* list(set(article.author for article in self.articles()))
Magazine_contributors(self) ==
    ListOfSet({Article_author(article) :
                   article \in Range(Magazine_articles(self).items)})

\* the titles without the None of a magazine that has no article
Magazine_article_titles_empty(self) ==
    List([n \in DOMAIN Magazine_articles(self).items |->
             Article_all[Magazine_articles(self).items[n].ref].title])

\* magazine.article_titles()
Magazine_article_titles(self) ==
    IF len(Magazine_articles(self)) = 0
    THEN None
    ELSE List([n \in DOMAIN Magazine_articles(self).items |->
                   Article_title(Magazine_articles(self).items[n])])

\* counts[key] = counts.get(key, 0) + 1 on a dict, which keeps its keys in
\* the order of their first insertion: a sequence of (key, count) items
DictIncr(counts, key) ==
    IF \E n \in DOMAIN counts : counts[n].key = key
    THEN [n \in DOMAIN counts |->
             IF counts[n].key = key
             THEN [key |-> key, count |-> counts[n].count + 1]
             ELSE counts[n]]
    ELSE Append(counts, [key |-> key, count |-> 1])

\* the dict after "for x in keys: counts[x] = counts.get(x, 0) + 1"
RECURSIVE CountAll(_)
CountAll(keys) ==
    IF keys = <<>>
    THEN <<>>
    ELSE DictIncr(CountAll(SubSeq(keys, 1, Len(keys) - 1)), keys[Len(keys)])

\* the threshold taken as count >= 2
Magazine_contributing_authors_atleast2(self) ==
    LET author_counts ==
            CountAll([n \in DOMAIN Magazine_articles(self).items |->
                         Article_author(Magazine_articles(self).items[n])])
        prolific ==
            SelectSeq(author_counts, LAMBDA item : item.count >= 2)
        prolific_authors == [n \in DOMAIN prolific |-> prolific[n].key]
    IN  IF prolific_authors = <<>> THEN None ELSE List(prolific_authors)

\* magazine.contributing_authors()
Magazine_contributing_authors(self) ==
    LET author_counts ==
            CountAll([n \in DOMAIN Magazine_articles(self).items |->
                         Article_author(Magazine_articles(self).items[n])])
        prolific ==
            SelectSeq(author_counts, LAMBDA item : item.count > 2)
        prolific_authors == [n \in DOMAIN prolific |-> prolific[n].key]
    IN  IF prolific_authors = <<>> THEN None ELSE List(prolific_authors)

\* min in the place of max
RECURSIVE MinPos(_, _)
MinPos(items, n) ==
    IF n = 1
    THEN 1
    ELSE IF items[n].count < items[MinPos(items, n - 1)].count
         THEN n
         ELSE MinPos(items, n - 1)

\* the last of the items of the largest count in the place of the first
RECURSIVE MaxPosLast(_, _)
MaxPosLast(items, n) ==
    IF n = 1
    THEN 1
    ELSE IF items[n].count >= items[MaxPosLast(items, n - 1)].count
         THEN n
         ELSE MaxPosLast(items, n - 1)

\* max(items, key=lambda x: x[1]): the position of the first item among
\* items[1..n] that no earlier item equals or exceeds
RECURSIVE MaxPos(_, _)
MaxPos(items, n) ==
    IF n = 1
    THEN 1
    ELSE IF items[n].count > items[MaxPos(items, n - 1)].count
         THEN n
         ELSE MaxPos(items, n - 1)

\* Magazine.top_publisher()
Magazine_top_publisher ==
    IF Article_all = <<>>
    THEN None
    ELSE LET magazine_counts ==
                 CountAll([k \in DOMAIN Article_all |-> Article_all[k].magazine])
         IN  IF magazine_counts = <<>>
             THEN None
             ELSE magazine_counts[MaxPos(magazine_counts,
                                         Len(magazine_counts))].key

(***************************************************************************)
(* The calls of a run.  Spec: every call of the API, with arguments of     *)
(* the right and of the wrong type and with lengths on both sides of       *)
(* every limit.                                                            *)
(***************************************************************************)
AuthorNames == {Str("Ama"), Str(""), None}
MagazineNames ==
    {Str("V"), Str("Vo"), Str("Scientific Amer."), Str("Scientific Americ"), None}
\* one valid category here; SpecViews changes categories between two
Categories == {Str("Fashion"), Str(""), None}
Titles ==
    {Str("News"), Str("Hello"),
     Str("The quick brown fox jumps over the lazy dog twice!"),
     Str("The quick brown fox jumps over the lazy dog twice!!"), None}

\* what a caller can pass where an instance is expected
Anything == Authors \cup Magazines \cup {None}

\* a method that only reads: it returns one of results
Query(op, self, results) ==
    /\ call' = [op |-> op, self |-> self, args |-> <<>>]
    /\ \E r \in results : Return(r)

Next ==
    \/ \E name \in AuthorNames :
           NumInstances < MaxInstances /\ Author(name)
    \/ \E name \in MagazineNames, category \in Categories :
           NumInstances < MaxInstances /\ Magazine(name, category)
    \/ \E author \in Anything, magazine \in Anything, title \in Titles :
           NumInstances < MaxInstances /\ Article(author, magazine, title)
    \/ \E self \in Authors, magazine \in Anything, title \in Titles :
           NumInstances < MaxInstances /\ Author_add_article(self, magazine, title)
    \/ \E self \in Articles, new_author \in Anything :
           Article_author_setter(self, new_author)
    \/ \E self \in Articles, new_magazine \in Anything :
           Article_magazine_setter(self, new_magazine)
    \/ \E self \in Magazines, new_name \in MagazineNames :
           Magazine_name_setter(self, new_name)
    \/ \E self \in Magazines, new_category \in Categories :
           Magazine_category_setter(self, new_category)
    \/ \E self \in Authors :
           Query("Author.articles", self, {Author_articles(self)})
    \/ \E self \in Authors :
           Query("Author.magazines", self, Author_magazines(self))
    \/ \E self \in Authors :
           Query("Author.topic_areas", self, Author_topic_areas(self))
    \/ \E self \in Magazines :
           Query("Magazine.articles", self, {Magazine_articles(self)})
    \/ \E self \in Magazines :
           Query("Magazine.contributors", self, Magazine_contributors(self))
    \/ \E self \in Magazines :
           Query("Magazine.article_titles", self,
                 {Magazine_article_titles(self)})
    \/ \E self \in Magazines :
           Query("Magazine.contributing_authors", self,
                 {Magazine_contributing_authors(self)})
    \/ Query("Magazine.top_publisher", None, {Magazine_top_publisher})

Spec == Init /\ [][Next]_vars

(***************************************************************************)
(* SpecViews: the runs in which every call succeeds (constructions,        *)
(* reassignments of an article's author and magazine, changes of a         *)
(* magazine's category), over more instances.  The reading methods are     *)
(* evaluated in every state of these runs, for every instance.             *)
(***************************************************************************)
ViewTitles == {Str("Hello")}
ViewCategories == {Str("Fashion"), Str("Tech")}

NextViews ==
    \/ NumInstances < MaxViewInstances /\ Author(Str("Ama"))
    \/ \E category \in ViewCategories :
           NumInstances < MaxViewInstances /\ Magazine(Str("Vogue"), category)
    \/ \E author \in Authors, magazine \in Magazines, title \in ViewTitles :
           NumInstances < MaxViewInstances /\ Article(author, magazine, title)
    \/ \E self \in Authors, magazine \in Magazines, title \in ViewTitles :
           /\ NumInstances < MaxViewInstances
           /\ Author_add_article(self, magazine, title)
    \/ \E self \in Articles, new_author \in Authors :
           Article_author_setter(self, new_author)
    \/ \E self \in Articles, new_magazine \in Magazines :
           Article_magazine_setter(self, new_magazine)
    \/ \E self \in Magazines, new_category \in ViewCategories :
           Magazine_category_setter(self, new_category)

SpecViews == Init /\ [][NextViews]_vars

(***************************************************************************)
(* Properties                                                              *)
(***************************************************************************)
\* a str whose length is within lo..hi
StrWithin(v, lo, hi) == v.type = "str" /\ lo <= Len(v.val) /\ Len(v.val) <= hi

\* the positions of Article.all whose article has author a / magazine m
ArticlesBy(a) == {k \in DOMAIN Article_all : Article_all[k].author = a}
ArticlesIn(m) == {k \in DOMAIN Article_all : Article_all[k].magazine = m}

\* C1: Article(author, magazine, title) succeeds and appends exactly the new
\* article at the end of Article.all if and only if title is a str of 5 to
\* 50 characters, author is a registered Author and magazine a registered
\* Magazine; otherwise (a title shorter than 5 or longer than 50 included)
\* it raises and leaves Article.all as it was.
C1_ArticleConstruction ==
    [][call'.op = "Article" =>
          LET author == call'.args[1]
              magazine == call'.args[2]
              title == call'.args[3]
          IN  IF /\ StrWithin(title, 5, 50)
                 /\ author \in Authors
                 /\ magazine \in Magazines
              THEN /\ exc' = ""
                   /\ Article_all' = Append(Article_all,
                          [title |-> title, author |-> author,
                           magazine |-> magazine])
                   /\ ret' = Obj("Article", Len(Article_all'))
              ELSE /\ exc' # ""
                   /\ Article_all' = Article_all]_vars

\* a title of the largest accepted length was accepted and its article
\* appended behind an earlier one
C1_Witness ==
    /\ call.op = "Article"
    /\ exc = ""
    /\ Len(call.args[3].val) = 50
    /\ Len(Article_all) = 2
    /\ Article_all[2].title = call.args[3]

\* C2: the name of every magazine is a str of 2 to 16 characters in every
\* state; magazine.name = v with v not a str or of a length outside 2..16
\* raises and leaves the name as it was, and with a valid v sets the name
\* to v.
C2_MagazineName ==
    /\ [](\A j \in DOMAIN Magazine_all : StrWithin(Magazine_all[j].name, 2, 16))
    /\ [][call'.op = "Magazine.name=" =>
             LET j == call'.self.ref
                 v == call'.args[1]
             IN  IF StrWithin(v, 2, 16)
                 THEN exc' = "" /\ Magazine_all'[j].name = v
                 ELSE exc' # "" /\ Magazine_all'[j].name = Magazine_all[j].name]_vars

\* a name of 17 characters was refused
C2_Witness ==
    /\ call.op = "Magazine.name="
    /\ call.args[1].type = "str"
    /\ Len(call.args[1].val) = 17
    /\ exc # ""
    /\ Magazine_all[call.self.ref].name # call.args[1]

\* C3: author.articles() is the subsequence of Article.all, in construction
\* order, of the articles whose current author is that instance: an article
\* reassigned to the author stands at the place of its construction, one
\* reassigned away is absent.
C3_AuthorArticles ==
    \A author \in Authors :
        LET r == Author_articles(author)
        IN  /\ r.type = "list"
            /\ \A n \in DOMAIN r.items : r.items[n] \in Articles
            /\ \A n, p \in DOMAIN r.items :
                   n < p => r.items[n].ref < r.items[p].ref
            /\ {r.items[n].ref : n \in DOMAIN r.items} = ArticlesBy(author)

\* the first article of Article.all was handed to the second author, who
\* is not the author of the second article but of a later one: it stands
\* first in that author's list
C3_Witness ==
    /\ call.op = "Article.author="
    /\ call.self = Obj("Article", 1)
    /\ call.args[1] = Obj("Author", 2)
    /\ Len(Article_all) >= 3
    /\ Article_all[2].author = Obj("Author", 1)
    /\ Author_articles(Obj("Author", 2)).items
           = <<Obj("Article", 1), Obj("Article", 3)>>

\* the authors with more than 2 articles in magazine m, counted by instance
Prolific(m) ==
    {a \in Authors : Cardinality(ArticlesBy(a) \cap ArticlesIn(m)) > 2}

\* C4: magazine.contributing_authors() returns exactly the Author instances
\* that are the current author of more than 2 articles whose current
\* magazine is that magazine (2 articles are not enough, and authors of the
\* same name are counted apart), and None, never an empty list, when there
\* is no such author.
C4_ContributingAuthors ==
    \A m \in Magazines :
        LET r == Magazine_contributing_authors(m)
        IN  IF Prolific(m) = {}
            THEN r = None
            ELSE /\ r.type = "list"
                 /\ Range(r.items) = Prolific(m)
                 /\ Len(r.items) = Cardinality(Prolific(m))

\* two authors of the same name wrote for one magazine, one of them 3
\* articles and the other fewer: only the first is returned
C4_Witness ==
    \E m \in Magazines : \E a, b \in Authors :
        /\ a # b
        /\ Author_name(a) = Author_name(b)
        /\ Cardinality(ArticlesBy(a) \cap ArticlesIn(m)) = 3
        /\ Cardinality(ArticlesBy(b) \cap ArticlesIn(m)) = 1
        /\ Magazine_contributing_authors(m) = List(<<a>>)

\* C5: Magazine.top_publisher() returns None exactly when Article.all is
\* empty, and otherwise a magazine that no other magazine exceeds in the
\* number of articles whose current magazine it is.
C5_TopPublisher ==
    LET r == Magazine_top_publisher
    IN  /\ (r = None) <=> (Article_all = <<>>)
        /\ Article_all # <<>> =>
               /\ r \in Magazines
               /\ \A m \in Magazines :
                      Cardinality(ArticlesIn(m)) <= Cardinality(ArticlesIn(r))

\* an article was reassigned to a magazine, which now has more articles
\* than another magazine that has some, and is the top publisher
C5_Witness ==
    /\ call.op = "Article.magazine="
    /\ exc = ""
    /\ Magazine_top_publisher = call.args[1]
    /\ \E m \in Magazines :
           /\ Cardinality(ArticlesIn(m)) >= 1
           /\ Cardinality(ArticlesIn(m)) < Cardinality(ArticlesIn(call.args[1]))
           /\ m.ref < call.args[1].ref

\* the categories of the magazines of the author's articles
TopicsOf(author) ==
    {Magazine_all[Article_all[k].magazine.ref].category : k \in ArticlesBy(author)}

\* C6: author.topic_areas() returns None, not an empty list, exactly when
\* the author has no article now; otherwise a non-empty list, without
\* duplicates, of the current categories of the magazines of the author's
\* current articles.
C6_TopicAreas ==
    \A author \in Authors :
        /\ Author_topic_areas(author) # {}
        /\ \A r \in Author_topic_areas(author) :
               /\ (r = None) <=> (ArticlesBy(author) = {})
               /\ r # None =>
                      /\ r.type = "list"
                      /\ Len(r.items) >= 1
                      /\ \A n, p \in DOMAIN r.items :
                             n # p => r.items[n] # r.items[p]
                      /\ Range(r.items) = TopicsOf(author)

\* after a change of a magazine's category an author has articles in two
\* magazines of one category: the category is listed once
C6_Witness ==
    /\ call.op = "Magazine.category="
    /\ exc = ""
    /\ \E author \in Authors :
           /\ \E k, l \in ArticlesBy(author) :
                  Article_all[k].magazine # Article_all[l].magazine
           /\ Author_topic_areas(author) = {List(<<call.args[1]>>)}

\* C7: in every state every article of Article.all has an author that is
\* an Author instance, a magazine that is a Magazine instance and a title
\* of 5 to 50 characters; article.author = v with v not an Author, and
\* article.magazine = v with v not a Magazine, raise and leave the
\* article's author, magazine and title as they were.
C7_ArticleReferences ==
    /\ [](\A k \in DOMAIN Article_all :
              /\ Article_all[k].author \in Authors
              /\ Article_all[k].magazine \in Magazines
              /\ StrWithin(Article_all[k].title, 5, 50))
    /\ [][/\ call'.op = "Article.author=" /\ call'.args[1] \notin Authors =>
                 exc' # "" /\ Article_all'[call'.self.ref] = Article_all[call'.self.ref]
          /\ call'.op = "Article.magazine=" /\ call'.args[1] \notin Magazines =>
                 exc' # "" /\ Article_all'[call'.self.ref] = Article_all[call'.self.ref]
         ]_vars

\* a Magazine was assigned as the author of an article and refused
C7_Witness ==
    /\ call.op = "Article.author="
    /\ call.args[1] \in Magazines
    /\ exc # ""
    /\ Article_all[call.self.ref].author \in Authors

\* s is a prefix of t
IsPrefix(s, t) == Len(s) <= Len(t) /\ \A n \in DOMAIN s : t[n] = s[n]

\* the fields no setter exists for
AuthorNamesOf(all) == [n \in DOMAIN all |-> all[n].name]
TitlesOf(all) == [n \in DOMAIN all |-> all[n].title]

\* C8: the three registries only grow at their end: over every step the
\* instances of each registry stay where they are (the new length is not
\* smaller, the names of the authors and the titles of the articles are a
\* prefix of the new ones); a successful construction appends one instance
\* to the registry of its class and leaves the two others alone; a failed
\* construction and every read leave the three registries as they were,
\* and a setter changes the length of none, no instance but its own and,
\* when it raises, nothing.
C8_AppendOnly ==
    [][/\ Len(Author_all) <= Len(Author_all')
       /\ Len(Magazine_all) <= Len(Magazine_all')
       /\ Len(Article_all) <= Len(Article_all')
       /\ IsPrefix(AuthorNamesOf(Author_all), AuthorNamesOf(Author_all'))
       /\ IsPrefix(TitlesOf(Article_all), TitlesOf(Article_all'))
       /\ call'.op = "Author" /\ exc' = "" =>
              /\ Author_all' = Append(Author_all, [name |-> call'.args[1]])
              /\ UNCHANGED <<Magazine_all, Article_all>>
       /\ call'.op = "Magazine" /\ exc' = "" =>
              /\ Magazine_all' = Append(Magazine_all,
                     [name |-> call'.args[1], category |-> call'.args[2]])
              /\ UNCHANGED <<Author_all, Article_all>>
       /\ call'.op = "Article" /\ exc' = "" =>
              /\ Article_all' = Append(Article_all,
                     [title |-> call'.args[3], author |-> call'.args[1],
                      magazine |-> call'.args[2]])
              /\ UNCHANGED <<Author_all, Magazine_all>>
       /\ call'.op = "Author.add_article" /\ exc' = "" =>
              /\ Article_all' = Append(Article_all,
                     [title |-> call'.args[2], author |-> call'.self,
                      magazine |-> call'.args[1]])
              /\ UNCHANGED <<Author_all, Magazine_all>>
       /\ call'.op \in {"Author", "Magazine", "Article", "Author.add_article"}
              /\ exc' # "" => UNCHANGED registries
       /\ call'.op \in {"Author.articles", "Author.magazines",
                        "Author.topic_areas", "Magazine.articles",
                        "Magazine.contributors", "Magazine.article_titles",
                        "Magazine.contributing_authors",
                        "Magazine.top_publisher"} => UNCHANGED registries
       /\ call'.op \in {"Article.author=", "Article.magazine="} =>
              /\ UNCHANGED <<Author_all, Magazine_all>>
              /\ Len(Article_all') = Len(Article_all)
              /\ \A k \in DOMAIN Article_all :
                     k # call'.self.ref => Article_all'[k] = Article_all[k]
              /\ exc' # "" => UNCHANGED Article_all
       /\ call'.op \in {"Magazine.name=", "Magazine.category="} =>
              /\ UNCHANGED <<Author_all, Article_all>>
              /\ Len(Magazine_all') = Len(Magazine_all)
              /\ \A j \in DOMAIN Magazine_all :
                     j # call'.self.ref => Magazine_all'[j] = Magazine_all[j]
              /\ exc' # "" => UNCHANGED Magazine_all
      ]_vars

\* author.add_article was refused for its title when an article existed
C8_Witness ==
    /\ call.op = "Author.add_article"
    /\ call.args[1] \in Magazines
    /\ exc # ""
    /\ Len(Article_all) >= 1

\* the n-th smallest element of a set of numbers
Nth(S, n) == CHOOSE k \in S : Cardinality({x \in S : x < k}) = n - 1

\* the titles of the articles in magazine m, in the order of Article.all
TitlesIn(m) ==
    [n \in 1..Cardinality(ArticlesIn(m)) |->
        Article_all[Nth(ArticlesIn(m), n)].title]

\* C9: magazine.article_titles() returns the titles of the articles whose
\* current magazine is that magazine, in the order of Article.all and with
\* equal titles repeated, and None rather than an empty list exactly when
\* the magazine has no article now; a call returns that value.
C9_ArticleTitles ==
    /\ \A m \in Magazines :
           LET r == Magazine_article_titles(m)
           IN  IF ArticlesIn(m) = {}
               THEN r = None
               ELSE r = List(TitlesIn(m))
    /\ call.op = "Magazine.article_titles" =>
           /\ exc = ""
           /\ ret = IF ArticlesIn(call.self) = {}
                    THEN None
                    ELSE List(TitlesIn(call.self))

\* a magazine with two articles of one title returned the title twice
C9_Witness ==
    /\ call.op = "Magazine.article_titles"
    /\ ret.type = "list"
    /\ Len(ret.items) = 2
    /\ ret.items[1] = ret.items[2]

\* the magazines that no magazine exceeds in articles
Maximal ==
    {m \in Magazines :
        /\ ArticlesIn(m) # {}
        /\ \A o \in Magazines :
               Cardinality(ArticlesIn(o)) <= Cardinality(ArticlesIn(m))}

\* C10: when several magazines share the largest number of articles,
\* Magazine.top_publisher() returns the one of them whose first article
\* comes first in Article.all, whether or not it is the first of them in
\* Magazine.all; the result is a function of the state.
C10_TopPublisherTies ==
    Article_all # <<>> =>
        /\ Magazine_top_publisher \in Maximal
        /\ \A m \in Maximal \ {Magazine_top_publisher} :
               Nth(ArticlesIn(Magazine_top_publisher), 1) < Nth(ArticlesIn(m), 1)

\* two magazines tie and the one returned was registered after the other
C10_Witness ==
    /\ Cardinality(Maximal) >= 2
    /\ \E m \in Maximal : m.ref < Magazine_top_publisher.ref

====
